---- MODULE Spec2Model ----
(***************************************************************************)
(* Model of PlatformTools/Tools/bootstrapper/bootstrapper.py: the manifest *)
(* driven bootstrapper (BootstrapManager, RepoManager, ArtifactManager,    *)
(* TaskExecutor) over an explicit filesystem, with git and HTTP as the     *)
(* environment.                                                            *)
(*                                                                         *)
(* A path is a sequence of names below the working directory.  The         *)
(* filesystem fs is a function from the existing paths to "dir" or to the  *)
(* content of a regular file.  "rodir" is a directory whose write          *)
(* permission is cleared (mode 0555) on a system that enforces it for the  *)
(* process: its entries can be read, but none can be created or removed.   *)
(* "unreadable" is a regular file whose mode is 0200: it can be written    *)
(* and removed like any file, but not read.                                *)
(***************************************************************************)
EXTENDS Integers, Sequences, FiniteSets, TLC

VARIABLES manifest, fs, pc, status, trace, fs0, prev

vars == <<manifest, fs, pc, status, trace, fs0, prev>>

-----------------------------------------------------------------------------
(* Manifest values.  A key that the mapping does not hold is Absent (for a *)
(* scalar) or AbsentP (for a path); a key holding YAML null is NullP.  The *)
(* empty string '' is the empty path <<>>.                                 *)

Absent == "<absent>"
AbsentP == <<"<absent>">>
NullP == <<"<null>">>
NoneP == [names |-> <<"<none>">>, slash |-> FALSE]

\* Python truthiness of a scalar read with dict.get: None and '' are falsy.
Truthy(v) == v # Absent /\ v # ""

-----------------------------------------------------------------------------
(* os.path and os primitives.                                              *)

Front(s) == SubSeq(s, 1, Len(s) - 1)
Last(s) == s[Len(s)]
IsPrefix(p, q) == Len(p) <= Len(q) /\ SubSeq(q, 1, Len(p)) = p
Prefixes(p) == {SubSeq(p, 1, k) : k \in 1..Len(p)}

DirKinds == {"dir", "rodir"}
Unreadable == "unreadable"
Exists(f, p) == p = <<>> \/ p \in DOMAIN f
IsDir(f, p) == p = <<>> \/ (p \in DOMAIN f /\ f[p] \in DirKinds)
IsFile(f, p) == p \in DOMAIN f /\ f[p] \notin DirKinds
KindOf(f, p) == IF p \in DOMAIN f THEN f[p] ELSE "dir"
\* Whether an entry can be created in, or removed from, the directory p.
Writable(f, p) == p = <<>> \/ (p \in DOMAIN f /\ f[p] = "dir")
Children(f, p) == {q \in DOMAIN f : Len(q) = Len(p) + 1 /\ IsPrefix(p, q)}
Restrict(f, S) == [x \in S |-> f[x]]
Write(f, p, v) == [q \in DOMAIN f \cup {p} |-> IF q = p THEN v ELSE f[q]]
Subtree(f, p) == Restrict(f, {q \in DOMAIN f : IsPrefix(p, q)})

\* The relative path used as it is, without the base directory.
os_path_join_unrooted(base, rel) == [names |-> rel, slash |-> rel = <<>>]

\* os.path.join(base, rel): joining '' leaves a trailing separator.
os_path_join(base, rel) == [names |-> base \o rel, slash |-> rel = <<>>]

\* os.path.dirname: everything before the last separator.
os_path_dirname(x) == IF x.slash THEN x.names ELSE Front(x.names)

\* os.path.isdir / os.path.isfile on a joined path.
os_path_isdir(f, x) == IsDir(f, x.names)
os_path_isfile(f, x) == ~x.slash /\ IsFile(f, x.names)

\* os.makedirs(p, exist_ok=True): raises when p or one of its parents is a
\* regular file, or when the first directory to create lies in a directory
\* that cannot be written, and creates nothing then (the parents of an
\* existing entry exist already).
\* os.makedirs without exist_ok: an existing directory is an error.
os_makedirs_strict(f, p) ==
    IF Exists(f, p) THEN [fs |-> f, exc |-> "FileExistsError"]
    ELSE [fs |-> [q \in DOMAIN f \cup Prefixes(p) |->
                     IF q \in DOMAIN f THEN f[q] ELSE "dir"],
          exc |-> ""]

os_makedirs(f, p) ==
    LET missing == {q \in Prefixes(p) : ~Exists(f, q)}
    IN  IF \E q \in Prefixes(p) : IsFile(f, q)
        THEN [fs |-> f, exc |-> "FileExistsError"]
        ELSE IF \E q \in missing : Exists(f, Front(q)) /\ ~Writable(f, Front(q))
        THEN [fs |-> f, exc |-> "PermissionError"]
        ELSE [fs |-> [q \in DOMAIN f \cup Prefixes(p) |->
                         IF q \in DOMAIN f THEN f[q] ELSE "dir"],
              exc |-> ""]

\* shutil.copy2(src, dst): a directory dst receives the file under src's
\* base name; copying a file onto itself raises SameFileError.
shutil_copy2(f, src, dst) ==
    LET d == IF IsDir(f, dst.names) /\ src.names # <<>>
             THEN dst.names \o <<Last(src.names)>>
             ELSE dst.names
    IN  IF ~os_path_isfile(f, src) THEN [fs |-> f, exc |-> "FileNotFoundError"]
        ELSE IF d = src.names THEN [fs |-> f, exc |-> "SameFileError"]
        ELSE IF f[src.names] = Unreadable THEN [fs |-> f, exc |-> "PermissionError"]
        ELSE IF IsDir(f, d) \/ (dst.slash /\ d = dst.names)
        THEN [fs |-> f, exc |-> "IsADirectoryError"]
        ELSE IF ~IsDir(f, Front(d)) THEN [fs |-> f, exc |-> "FileNotFoundError"]
        ELSE IF ~Exists(f, d) /\ ~Writable(f, Front(d))
        THEN [fs |-> f, exc |-> "PermissionError"]
        ELSE [fs |-> [q \in DOMAIN f \cup {d} |-> IF q = d THEN f[src.names] ELSE f[q]],
              exc |-> ""]

\* shutil.copytree(src, dst, dirs_exist_ok=True): the entries of src are
\* listed, dst is created, each entry is copied in turn and dst is given
\* the mode of src (copystat); the errors of the entries are collected and
\* raised together at the end.
RECURSIVE shutil_copytree(_, _, _)
RECURSIVE CopyEntries(_, _, _, _, _)
CopyEntries(f, src, dst, entries, failed) ==
    IF entries = {}
    THEN [fs |-> IF dst = <<>> THEN f
                 ELSE [q \in DOMAIN f |-> IF q = dst THEN KindOf(f, src) ELSE f[q]],
          exc |-> IF failed THEN "Error" ELSE ""]
    ELSE LET e == CHOOSE x \in entries : TRUE
             n == Last(e)
             r == IF IsDir(f, e)
                  THEN shutil_copytree(f, e, dst \o <<n>>)
                  ELSE shutil_copy2(f, [names |-> e, slash |-> FALSE],
                                    [names |-> dst \o <<n>>, slash |-> FALSE])
         IN  CopyEntries(r.fs, src, dst, entries \ {e}, failed \/ r.exc # "")

\* copytree without dirs_exist_ok: an existing destination is an error.
shutil_copytree_strict(f, src, dst) ==
    IF Exists(f, dst) THEN [fs |-> f, exc |-> "FileExistsError"]
    ELSE CopyEntries(os_makedirs(f, dst).fs, src, dst, Children(f, src), FALSE)

shutil_copytree(f, src, dst) ==
    LET entries == Children(f, src)
        m == os_makedirs(f, dst)
    IN  IF m.exc # "" THEN m ELSE CopyEntries(m.fs, src, dst, entries, FALSE)

\* os.unlink / os.rmdir of the entry p: refused when the directory that
\* holds p cannot be written.
Unlink(f, p) ==
    IF Writable(f, Front(p))
    THEN [fs |-> Restrict(f, DOMAIN f \ {p}), exc |-> ""]
    ELSE [fs |-> f, exc |-> "PermissionError"]

\* remove_readonly(func, path, _): os.chmod(path, stat.S_IWRITE) leaves
\* path with mode 0200 (a directory then admits no new entry, which the
\* model folds into "rodir"), and func is tried again; what it raises then
\* leaves rmtree.
remove_readonly(f, p) ==
    Unlink(Write(f, p, IF IsDir(f, p) THEN "rodir" ELSE Unreadable), p)

\* func(path), and the onerror handler when it fails.
TryUnlink(f, p) ==
    IF Unlink(f, p).exc = "" THEN Unlink(f, p) ELSE remove_readonly(f, p)

\* shutil.rmtree(p, onerror=remove_readonly): the entries of p depth first,
\* then p itself; the first exception that leaves the handler ends it.  The
\* order in which a directory lists its entries is not specified, so the
\* result is the set of the outcomes of every order.
RECURSIVE shutil_rmtree(_, _)
RECURSIVE RemoveEntries(_, _)
RemoveEntries(f, entries) ==
    IF entries = {} THEN {[fs |-> f, exc |-> ""]}
    ELSE UNION {UNION {IF r.exc # "" THEN {r} ELSE RemoveEntries(r.fs, entries \ {e}) :
                         r \in IF IsDir(f, e) THEN shutil_rmtree(f, e)
                                ELSE {TryUnlink(f, e)}} :
                  e \in entries}

shutil_rmtree(f, p) ==
    {IF r.exc # "" THEN r ELSE TryUnlink(r.fs, p) : r \in RemoveEntries(f, Children(f, p))}

\* os.remove(p).
os_remove(f, p) == Unlink(f, p)

-----------------------------------------------------------------------------
(* TaskExecutor: the three handlers.  Each returns the filesystem it       *)
(* leaves, the exception it raises ("" for none) and the severity of the   *)
(* warning or error it logs itself ("" for none); _delete returns the set  *)
(* of the results it can have.                                             *)

ZipSuffixed == {"a.zip"}
TarSuffixed == {"a.tar", "a.tgz", "a.tar.gz"}
ZipData == "zip-archive"
ZipMember == "payload"
\* The tar archive holds the directory pkg with mode 0555 and the file pkg/f.
TarData == "tar-archive"
TarDir == "pkg"
TarMember == "f"

EndsWith(x, names) == ~x.slash /\ x.names # <<>> /\ Last(x.names) \in names

TaskExecutor_copy(f, source, destination) ==
    IF destination = NoneP
    THEN [fs |-> f, exc |-> "", log |-> "error"]
    ELSE IF os_path_isdir(f, source)
    THEN LET r == shutil_copytree(f, source.names, destination.names)
         IN  [fs |-> r.fs, exc |-> r.exc, log |-> ""]
    ELSE LET m == os_makedirs(f, os_path_dirname(destination))
             r == shutil_copy2(m.fs, source, destination)
         IN  IF m.exc # "" THEN [fs |-> m.fs, exc |-> m.exc, log |-> ""]
             ELSE [fs |-> r.fs, exc |-> r.exc, log |-> ""]

TaskExecutor_delete(f, source, destination) ==
    IF os_path_isdir(f, source)
    THEN {[fs |-> r.fs, exc |-> r.exc, log |-> ""] : r \in shutil_rmtree(f, source.names)}
    ELSE IF os_path_isfile(f, source)
    THEN LET r == os_remove(f, source.names)
         IN  {[fs |-> r.fs, exc |-> r.exc, log |-> ""]}
    ELSE {[fs |-> f, exc |-> "", log |-> "warning"]}

\* zipfile.ZipFile(source).extractall(destination); every failure is caught
\* by _expand itself and logged as an error.
ZipExtractAll(f, source, destination) ==
    LET d == destination.names \o <<ZipMember>>
    IN  IF \/ ~os_path_isfile(f, source) \/ f[source.names] # ZipData \/ IsDir(f, d)
           \/ (~Exists(f, d) /\ ~Writable(f, destination.names))
        THEN [fs |-> f, exc |-> "", log |-> "error"]
        ELSE [fs |-> Write(f, d, "payload-data"), exc |-> "", log |-> ""]

\* tarfile.open(source, 'r:*').extractall(destination): the members are
\* created, and the directories are given their modes at the end.
TarExtractAll(f, source, destination) ==
    LET d == destination.names \o <<TarDir>>
        m == d \o <<TarMember>>
    IN  IF \/ ~os_path_isfile(f, source) \/ f[source.names] # TarData
           \/ IsFile(f, d) \/ IsDir(f, m)
           \/ (~Exists(f, d) /\ ~Writable(f, destination.names))
        THEN [fs |-> f, exc |-> "", log |-> "error"]
        ELSE IF ~Exists(f, m) /\ Exists(f, d) /\ ~Writable(f, d)
        THEN [fs |-> f, exc |-> "", log |-> "error"]
        ELSE [fs |-> Write(Write(f, m, "member-data"), d, "rodir"),
              exc |-> "", log |-> ""]

TaskExecutor_expand(f, source, destination) ==
    IF destination = NoneP
    THEN [fs |-> f, exc |-> "TypeError", log |-> ""]
    ELSE LET m == os_makedirs(f, destination.names)
         IN  IF m.exc # "" THEN [fs |-> m.fs, exc |-> m.exc, log |-> ""]
             ELSE IF EndsWith(source, ZipSuffixed)
             THEN ZipExtractAll(m.fs, source, destination)
             ELSE IF EndsWith(source, TarSuffixed)
             THEN TarExtractAll(m.fs, source, destination)
             ELSE [fs |-> m.fs, exc |-> "", log |-> "warning"]

(* TaskExecutor.execute_tasks: one iteration of the loop over self.tasks.  *)

Actions == {"copy", "delete", "expand"}

\* action_map.get(action, 'unknown'): the handler, or the default.
action_map_get(action) == IF action \in Actions THEN action ELSE "unknown"

\* `if func:` - a function object and a non-empty string are both true.
FuncTruthy(func) == func # ""

\* func(source, destination), as the set of its possible results; calling
\* the string 'unknown' raises TypeError.
CallFunc(func, f, source, destination) ==
    CASE func = "copy" -> {TaskExecutor_copy(f, source, destination)}
      [] func = "delete" -> TaskExecutor_delete(f, source, destination)
      [] func = "expand" -> {TaskExecutor_expand(f, source, destination)}
      [] OTHER -> {[fs |-> f, exc |-> "TypeError", log |-> ""]}

\* Whether an exception raised by func(source, destination) is caught by
\* the loop's `except Exception`.
TaskCatches == TRUE

\* Resolving source and destination happens before the try block: joining a
\* null value raises TypeError to the caller of execute_tasks.
ResolveRaises(task) ==
    task.source = NullP \/ task.destination = NullP

\* The results one iteration can have.  out: "done" (handler returned),
\* "caught" (handler raised, error logged), "warned" (unknown-action
\* branch), "raised" (exception left the loop).
execute_task(f, base, task) ==
    LET func == action_map_get(task.action)
        source == os_path_join(base, IF task.source = AbsentP THEN <<>> ELSE task.source)
        destination == IF task.destination # AbsentP
                       THEN os_path_join(base, task.destination)
                       ELSE NoneP
    IN  IF ~FuncTruthy(func)
        THEN {[fs |-> f, out |-> "warned", log |-> "warning", exc |-> ""]}
        ELSE IF ResolveRaises(task)
        THEN {[fs |-> f, out |-> "raised", log |-> "", exc |-> "TypeError"]}
        ELSE {IF r.exc = ""
              THEN [fs |-> r.fs, out |-> "done", log |-> r.log, exc |-> ""]
              ELSE IF TaskCatches
              THEN [fs |-> r.fs, out |-> "caught", log |-> "error", exc |-> r.exc]
              ELSE [fs |-> r.fs, out |-> "raised", log |-> "", exc |-> r.exc] :
                 r \in CallFunc(func, f, source, destination)}

-----------------------------------------------------------------------------
(* The environment: git and the HTTP server.  The remote holds one branch  *)
(* whose tip does not move; `ok` says whether the environment lets the     *)
(* command succeed (network up, revision known, ...).                      *)
(* .git/HEAD is "ref" on the branch, "rev" detached at the pinned revision *)
(* and "tip" detached at the branch tip; src.c is the tracked file, whose  *)
(* content names the commit it was checked out from.                       *)

GitDir(dest) == dest \o <<".git">>
GitHead(dest) == dest \o <<".git", "HEAD">>
Tracked(dest) == dest \o <<"src.c">>
CommitOf(head) == IF head = "rev" THEN "rev" ELSE "tip"

\* The working tree after HEAD moved to `head`: the tracked file follows
\* when it is unmodified.
MoveHead(f, dest, head) ==
    LET old == CommitOf(f[GitHead(dest)])
        g == Write(f, GitHead(dest), head)
    IN  IF IsFile(g, Tracked(dest)) /\ g[Tracked(dest)] = old
        THEN Write(g, Tracked(dest), CommitOf(head))
        ELSE g

\* git clone --branch b --single-branch url dest: needs an empty dest.
GitClone(f, dest, ok) ==
    IF ok /\ IsDir(f, dest) /\ Children(f, dest) = {} /\ Writable(f, dest)
    THEN [fs |-> Write(Write(Write(f, GitDir(dest), "dir"), GitHead(dest), "ref"),
                       Tracked(dest), "tip"),
          rc |-> 0]
    ELSE [fs |-> f, rc |-> 1]

\* git -C dest pull: on the branch it is up to date; a detached HEAD of a
\* single-branch clone fast-forwards to the branch tip.
GitPull(f, dest, ok) ==
    IF ok /\ IsFile(f, GitHead(dest))
    THEN [fs |-> IF f[GitHead(dest)] = "rev" THEN MoveHead(f, dest, "tip") ELSE f,
          rc |-> 0]
    ELSE [fs |-> f, rc |-> 1]

\* git -C dest checkout commit.
GitCheckout(f, dest, ok) ==
    IF ok /\ IsFile(f, GitHead(dest))
    THEN [fs |-> MoveHead(f, dest, "rev"), rc |-> 0]
    ELSE [fs |-> f, rc |-> 1]

\* git -C dest submodule update --init [--recursive].
GitSubmodule(f, dest, recursive, ok) ==
    IF ok /\ IsFile(f, GitHead(dest))
    THEN [fs |-> IF recursive
                 THEN Write(Write(f, dest \o <<"sub">>, "dir"),
                            dest \o <<"sub", "nested">>, "dir")
                 ELSE Write(f, dest \o <<"sub">>, "dir"),
          rc |-> 0]
    ELSE [fs |-> f, rc |-> 1]

\* run_command without the exit(1) of its except branch.
run_command_ignoring(rc) == "running"

\* RepoManager.run_command: a non-zero exit status ends the process.
run_command(rc) == IF rc # 0 THEN "exit1" ELSE "running"

-----------------------------------------------------------------------------
(* Bounds and the manifests the runs are drawn from.                       *)

MaxRepos == 2
MaxArtifacts == 2
MaxTasks == 2
MaxRuns == 3

SeqsUpTo(S, n) == UNION {[1..k -> S] : k \in 0..n}

Task(a, s, d) == [action |-> a, source |-> s, destination |-> d]
Repo(u, d, c, m, ts) ==
    [url |-> u, destination |-> d, commit |-> c, submodules |-> m, tasks |-> ts]
Artifact(u, d, ts) == [url |-> u, destination |-> d, tasks |-> ts]
\* A manifest: the state of the file, and for a document its project and
\* the top-level keys it holds with their sequences.
Doc(file, project, repos, arts) ==
    [file |-> file, project |-> project, keys |-> {"repositories", "artifacts"},
     repositories |-> repos, artifacts |-> arts]

RepoTasks == << Task("copy", <<"lib", "src.c">>, <<"d", "src.c">>),
                Task("delete", <<"d">>, AbsentP) >>
ArtifactTasks == << Task("expand", <<"a.zip">>, <<"x">>),
                    Task("delete", <<"x">>, AbsentP) >>

RepoEntries ==
    {Repo(u, d, o[1], o[2], RepoTasks) :
        u \in {Absent, "u"}, d \in {AbsentP, <<"lib">>},
        o \in {<<Absent, Absent>>, <<"rev", "recursive">>}}
ArtifactEntries ==
    {Artifact(u, d, ArtifactTasks) : u \in {Absent, "u"}, d \in {AbsentP, <<"a.zip">>}}

\* A manifest file that is missing, malformed, empty, or without project.
BrokenManifests ==
    {[Doc(k, Absent, <<>>, <<>>) EXCEPT !.keys = {}] :
        k \in {"missing", "malformed", "empty"}}
      \cup {Doc("doc", Absent, <<>>, <<>>)}

\* Documents without the repositories key, the artifacts key, or both.
SparseManifests ==
    {[Doc("doc", "out", <<>>, as) EXCEPT !.keys = {"artifacts"}] :
        as \in SeqsUpTo(ArtifactEntries, 1)}
      \cup {[Doc("doc", "out", rs, <<>>) EXCEPT !.keys = {"repositories"}] :
               rs \in SeqsUpTo(RepoEntries, 1)}
      \cup {[Doc("doc", "out", <<>>, <<>>) EXCEPT !.keys = {}]}

Manifests ==
    {Doc("doc", "out", rs, as) :
        rs \in SeqsUpTo(RepoEntries, MaxRepos),
        as \in SeqsUpTo(ArtifactEntries, MaxArtifacts)}
      \cup BrokenManifests \cup SparseManifests

\* Task lists: one task of any shape among tasks that set the scene.
TaskSet ==
    {Task(a, s, d) :
        a \in Actions \cup {"unknown-op", Absent},
        s \in {AbsentP, NullP, <<"lib">>, <<"lib", "src.c">>, <<"a.zip">>},
        d \in {AbsentP, NullP, <<>>, <<"d">>}}
      \ {Task("copy", AbsentP, <<"d">>)}
SceneTasks == {Task("copy", <<"lib">>, <<"d">>), Task("delete", <<"a.zip">>, AbsentP)}
TaskLists ==
    {l \in {r1 \o h \o r2 :
                r1 \in SeqsUpTo(SceneTasks, MaxTasks),
                h \in {<<>>} \cup {<<t>> : t \in TaskSet},
                r2 \in SeqsUpTo(SceneTasks, MaxTasks)} : Len(l) <= MaxTasks}

\* The same delete twice, after a tar archive was downloaded and expanded.
DeleteSources ==
    {AbsentP, <<"lib">>, <<"lib", "src.c">>, <<"a.zip">>, <<"nowhere">>,
     <<"x">>, <<"x", TarDir>>, <<"x", TarDir, TarMember>>}
DeleteManifests ==
    {Doc("doc", "out", <<Repo("u", <<"lib">>, Absent, Absent, <<>>)>>,
         <<Artifact("u", <<"a.tar">>, <<Task("expand", <<"a.tar">>, <<"x">>)>>),
           Artifact("u", <<"a.zip">>, <<Task("delete", s, d), Task("delete", s, d)>>)>>) :
        s \in DeleteSources, d \in {AbsentP, <<"d">>}}

\* A directory copied onto a directory: d holds src.c with another content
\* and the expanded payload before lib, d or a new directory is copied.
MergeScene ==
    << Task("copy", <<"a.zip">>, <<"d", "src.c">>), Task("expand", <<"a.zip">>, <<"d">>) >>
MergeDirs == {<<"lib">>, <<"lib", ".git">>, <<"d">>, <<"new">>}
MergeManifests ==
    {Doc("doc", "out", <<Repo("u", <<"lib">>, c, Absent, <<>>)>>,
         <<Artifact("u", <<"a.zip">>, MergeScene),
           Artifact("u", <<"a.tar">>, <<Task("copy", s, d)>>)>>) :
        c \in {Absent, "rev"}, s \in MergeDirs, d \in MergeDirs \cup {<<>>}}

ManifestsTasks ==
    {Doc("doc", "out", <<Repo("u", <<"lib">>, Absent, Absent, <<>>)>>,
         <<Artifact("u", <<"a.zip">>, ts)>>) : ts \in TaskLists}
      \cup {Doc("doc", "out", <<Repo("u", <<"lib">>, "rev", "recursive", RepoTasks)>>, <<>>)}
      \cup DeleteManifests \cup MergeManifests

\* Re-runs: one repository entry of every shape and at most one artifact,
\* which may be one whose task replaces the downloaded file afterwards.
SubmoduleModes == {Absent, "none", "recursive", "no-recursive"}
ReplacedArtifact ==
    Artifact("u", <<"a.zip">>, <<Task("copy", <<"lib", "src.c">>, <<"a.zip">>)>>)
ManifestsRerun ==
    {Doc("doc", "out", <<Repo(u, d, c, m, ts)>>, as) :
        u \in {Absent, "u"}, d \in {AbsentP, <<"lib">>}, c \in {Absent, "rev"},
        m \in SubmoduleModes,
        ts \in {<<>>, <<Task("copy", <<"lib", "src.c">>, <<"d", "src.c">>)>>},
        as \in SeqsUpTo(ArtifactEntries \cup {ReplacedArtifact}, 1)}

-----------------------------------------------------------------------------
(* Positions of the sequential program.                                    *)

Pos(ph, i, st, t) == [ph |-> ph, i |-> i, st |-> st, t |-> t]
StartPos == Pos("start", 0, "", 0)
EndPos == Pos("end", 0, "", 0)

\* config.get('repositories', []) and config.get('artifacts', []).
config_get(key) == IF key \in manifest.keys THEN manifest[key] ELSE <<>>
Repos == config_get("repositories")
Arts == config_get("artifacts")
Entry(ph, i) == IF ph = "repo" THEN Repos[i] ELSE Arts[i]
BaseDir == <<manifest.project>>

\* BootstrapManager.run: the repositories, then the artifacts.
FirstArtifact ==
    IF Len(Arts) >= 1 THEN Pos("artifact", 1, "download", 0) ELSE EndPos
FirstRepo ==
    IF Len(Repos) >= 1 THEN Pos("repo", 1, "begin", 0) ELSE FirstArtifact
NextEntry(ph, i) ==
    IF ph = "repo"
    THEN IF i < Len(Repos) THEN Pos("repo", i + 1, "begin", 0) ELSE FirstArtifact
    ELSE IF i < Len(Arts) THEN Pos("artifact", i + 1, "download", 0) ELSE EndPos

\* The loop over self.tasks started one task too late.
FirstTask_late(ph, i) ==
    IF Len(Entry(ph, i).tasks) >= 2 THEN Pos(ph, i, "task", 2) ELSE NextEntry(ph, i)

\* TaskExecutor.execute_tasks: the loop over self.tasks.
FirstTask(ph, i) ==
    IF Len(Entry(ph, i).tasks) >= 1 THEN Pos(ph, i, "task", 1) ELSE NextEntry(ph, i)
NextTask(ph, i, t) ==
    IF t < Len(Entry(ph, i).tasks) THEN Pos(ph, i, "task", t + 1) ELSE NextEntry(ph, i)

\* RepoManager.clone_repository: checkout if pinned, submodules if enabled,
\* then the tasks.
AfterCheckout(i) ==
    IF Truthy(Repos[i].submodules) THEN Pos("repo", i, "submodule", 0)
    ELSE FirstTask("repo", i)
AfterFetch(i) ==
    IF Truthy(Repos[i].commit) THEN Pos("repo", i, "checkout", 0)
    ELSE AfterCheckout(i)

\* The exit code of the process: exit(1) and a traceback both give 1.
ExitCode(st) == IF st = "exit0" THEN 0 ELSE 1

\* The interpreter leaves with status 0 when run() returns.
StatusAt(pos) == IF pos.ph = "end" THEN "exit0" ELSE "running"

\* An entry of the log of steps: what was done for which entry (and task),
\* how it ended, the severity logged, whether the environment allowed it
\* and whether it changed the filesystem.
Ev(pos, step, arg, out, log, env, chg) ==
    [ph |-> pos.ph, i |-> pos.i, t |-> pos.t, step |-> step, arg |-> arg,
     out |-> out, log |-> log, env |-> env, chg |-> chg]

EmptyFS == [p \in {} |-> "dir"]

\* The outcome of one step: the filesystem, the position, the exit status
\* ("running", "exit0", "exit1", or "uncaught" for a traceback) and the log.
Outcome(f, pos, st, evs) == [fs |-> f, pc |-> pos, status |-> st, evs |-> evs]
Goes(f, pos, evs) == Outcome(f, pos, StatusAt(pos), evs)
Raises(f, exc, evs) ==
    Outcome(f, pc, "uncaught", evs \o <<Ev(pc, "raise", "", exc, "", "ok", FALSE)>>)

Apply(r) ==
    /\ fs' = r.fs
    /\ pc' = r.pc
    /\ status' = r.status
    /\ trace' = trace \o r.evs
    /\ UNCHANGED <<manifest, fs0, prev>>

\* `not destination` on a joined path: only the empty string is false.
PathTruthy(x) == x.names # <<>>

\* The idempotency check dropped: every run clones.
HasGitMetadata_never(f, dest) == FALSE

\* os.path.exists(os.path.join(destination, ".git"))
HasGitMetadata(f, dest) == Exists(f, GitDir(dest))

-----------------------------------------------------------------------------
(* BootstrapManager.__init__, load_manifest and the head of run().         *)

Main ==
    /\ status = "running" /\ pc = StartPos
    /\ LET m == os_makedirs(fs, BaseDir)
           stop(why) == Outcome(fs, pc, "exit1",
                                <<Ev(pc, "load", "", why, "error", "ok", FALSE)>>)
       IN  Apply(CASE manifest.file = "missing" -> stop("NotFound")
                   [] manifest.file = "malformed" -> stop("ParseError")
                   [] manifest.file = "empty" -> Raises(fs, "AttributeError", <<>>)
                   [] manifest.file = "doc" /\ ~Truthy(manifest.project) ->
                          stop("NoProject")
                   [] OTHER ->
                          IF m.exc # "" THEN Raises(fs, m.exc, <<>>)
                          ELSE Goes(m.fs, FirstRepo,
                                    <<Ev(pc, "load", "", "ok", "", "ok", m.fs # fs)>>))

(* RepoManager.clone_repository, lines 186-199: the fields, the check and  *)
(* the destination directory.                                              *)

RepoBegin ==
    /\ status = "running" /\ pc.ph = "repo" /\ pc.st = "begin"
    /\ LET e == Repos[pc.i]
           destination == os_path_join(BaseDir, e.destination)
           m == os_makedirs(fs, destination.names)
       IN  Apply(IF e.destination = AbsentP THEN Raises(fs, "KeyError", <<>>)
                 ELSE IF e.destination = NullP THEN Raises(fs, "TypeError", <<>>)
                 ELSE IF ~Truthy(e.url) \/ ~PathTruthy(destination)
                 THEN Goes(fs, NextEntry("repo", pc.i),
                           <<Ev(pc, "skip", "", "returned", "error", "ok", FALSE)>>)
                 ELSE IF m.exc # "" THEN Raises(fs, m.exc, <<>>)
                 ELSE Goes(m.fs, Pos("repo", pc.i, "fetch", 0),
                           <<Ev(pc, "makedirs", "", "ok", "", "ok", m.fs # fs)>>))

\* One git command through run_command: the step's event, and either the
\* end of the process or the next position.
GitStep(step, arg, r, ok, next) ==
    LET ev == Ev(pc, step, arg, IF r.rc = 0 THEN "ok" ELSE "fail",
                 IF r.rc = 0 THEN "" ELSE "error",
                 IF ok THEN "ok" ELSE "fault", r.fs # fs)
    IN  IF run_command(r.rc) = "exit1"
        THEN Outcome(r.fs, pc, "exit1", <<ev>>)
        ELSE Goes(r.fs, next, <<ev>>)

RepoDest(i) == os_path_join(BaseDir, Repos[i].destination).names

\* lines 201-206: clone, or pull when the metadata directory exists.
RepoFetch ==
    /\ status = "running" /\ pc.ph = "repo" /\ pc.st = "fetch"
    /\ \E ok \in BOOLEAN :
          LET dest == RepoDest(pc.i)
          IN  Apply(IF ~HasGitMetadata(fs, dest)
                    THEN GitStep("clone", "", GitClone(fs, dest, ok), ok, AfterFetch(pc.i))
                    ELSE GitStep("pull", "", GitPull(fs, dest, ok), ok, AfterFetch(pc.i)))

\* lines 208-210.
RepoCheckout ==
    /\ status = "running" /\ pc.ph = "repo" /\ pc.st = "checkout"
    /\ \E ok \in BOOLEAN :
          Apply(GitStep("checkout", Repos[pc.i].commit,
                        GitCheckout(fs, RepoDest(pc.i), ok), ok, AfterCheckout(pc.i)))

\* lines 212-217.
RepoSubmodules ==
    /\ status = "running" /\ pc.ph = "repo" /\ pc.st = "submodule"
    /\ \E ok \in BOOLEAN :
          LET recursive == Repos[pc.i].submodules = "recursive"
          IN  Apply(GitStep("submodule", IF recursive THEN "recursive" ELSE "",
                            GitSubmodule(fs, RepoDest(pc.i), recursive, ok), ok,
                            FirstTask("repo", pc.i)))

\* The file opened without truncation: an existing file keeps its content.
open_keep(f, p, data) == IF p \in DOMAIN f THEN f ELSE Write(f, p, data)

\* What the server sends for an artifact: an archive of the kind its
\* destination names.
Body(p) == IF Last(p) \in TarSuffixed THEN TarData ELSE ZipData

\* open(destination, 'wb') and the chunks written to it: the file holds the
\* response body, whatever it held before.
open_wb(f, p, data) ==
    IF IsFile(f, p) /\ f[p] = Unreadable THEN f ELSE Write(f, p, data)

\* The body of a final 3xx answer: not an archive.
RedirectData == "redirect-page"

\* What iter_content yields: the archive on a 2xx answer, else the body
\* the server sent with its status.
Response(net, p) == IF net = "ok" THEN Body(p) ELSE RedirectData

\* response.raise_for_status(): HTTPError for a 4xx or 5xx status only.
raise_for_status(net) == net = "status"

\* The file opened before the request is made: it is empty when the
\* request fails.
requests_get_truncating(f, p) == IF IsDir(f, p) THEN f ELSE Write(f, p, "")

\* The filesystem when requests.get or raise_for_status raises: the
\* destination has not been opened yet.
requests_get_failed(f, p) == f

(* ArtifactManager.download, lines 229-243.  net is what the server and    *)
(* the network do: "ok" (2xx), a final 3xx answer that requests does not   *)
(* follow ("redirect": 300, 304, or no Location header), a 4xx or 5xx      *)
(* "status", or a "conn" error.                                            *)

Net == {"ok", "redirect", "status", "conn"}

ArtifactDownload ==
    /\ status = "running" /\ pc.ph = "artifact" /\ pc.st = "download"
    /\ \E net \in Net :
          LET e == Arts[pc.i]
              destination == os_path_join(BaseDir,
                                 IF e.destination = AbsentP THEN <<>> ELSE e.destination)
              m == os_makedirs(fs, os_path_dirname(destination))
              mk == <<Ev(pc, "makedirs", "", "ok", "", "ok", m.fs # fs)>>
              http == Ev(pc, "http", "", net, "", IF net = "ok" THEN "ok" ELSE "fault", FALSE)
              g == open_wb(m.fs, destination.names, Response(net, destination.names))
              failed == requests_get_failed(m.fs, destination.names)
          IN  Apply(IF e.destination = NullP THEN Raises(fs, "TypeError", <<>>)
                    ELSE IF ~Truthy(e.url) \/ ~PathTruthy(destination)
                    THEN Goes(fs, NextEntry("artifact", pc.i),
                              <<Ev(pc, "skip", "", "returned", "error", "ok", FALSE)>>)
                    ELSE IF m.exc # "" THEN Raises(fs, m.exc, <<>>)
                    ELSE IF net = "conn" THEN Raises(failed, "ConnectionError", mk \o <<http>>)
                    ELSE IF raise_for_status(net)
                    THEN Raises(failed, "HTTPError", mk \o <<http>>)
                    ELSE IF destination.slash \/ IsDir(m.fs, destination.names)
                    THEN Raises(m.fs, "IsADirectoryError", mk \o <<http>>)
                    ELSE IF /\ ~Exists(m.fs, destination.names)
                            /\ ~Writable(m.fs, os_path_dirname(destination))
                    THEN Raises(m.fs, "PermissionError", mk \o <<http>>)
                    ELSE Goes(g, FirstTask("artifact", pc.i),
                              mk \o <<http, Ev(pc, "write", "", "ok", "", "ok", TRUE)>>))

(* TaskExecutor(entry, base_dir).execute_tasks(): one task of the loop.    *)

ExecTask ==
    /\ status = "running" /\ pc.st = "task"
    /\ LET task == Entry(pc.ph, pc.i).tasks[pc.t]
       IN  \E r \in execute_task(fs, BaseDir, task) :
              LET ev == Ev(pc, "task", task.action, r.out, r.log, "ok", r.fs # fs)
              IN  Apply(IF r.out = "raised"
                        THEN Outcome(r.fs, pc, "uncaught",
                                     <<ev, Ev(pc, "raise", "", r.exc, "", "ok", FALSE)>>)
                        ELSE Goes(r.fs, NextTask(pc.ph, pc.i, pc.t), <<ev>>))

(* The script is started again on the same manifest and the same disk.     *)

Rerun ==
    /\ status # "running" /\ Len(prev) + 1 < MaxRuns
    /\ prev' = Append(prev, [trace |-> trace, fs0 |-> fs0, fs1 |-> fs, status |-> status])
    /\ pc' = StartPos /\ status' = "running" /\ trace' = <<>> /\ fs0' = fs
    /\ UNCHANGED <<manifest, fs>>

-----------------------------------------------------------------------------

InitOn(ms) ==
    /\ manifest \in ms
    /\ fs = EmptyFS /\ fs0 = EmptyFS
    /\ pc = StartPos /\ status = "running"
    /\ trace = <<>> /\ prev = <<>>

Init == InitOn(Manifests)
InitTasks == InitOn(ManifestsTasks)
InitRerun == InitOn(ManifestsRerun)

Next ==
    \/ Main
    \/ RepoBegin
    \/ RepoFetch
    \/ RepoCheckout
    \/ RepoSubmodules
    \/ ArtifactDownload
    \/ ExecTask

NextRerun == Next \/ Rerun

Spec == Init /\ [][Next]_vars
SpecTasks == InitTasks /\ [][Next]_vars
SpecRerun == InitRerun /\ [][NextRerun]_vars

-----------------------------------------------------------------------------
(* Properties.                                                             *)

Events(tr, ph, i) == {k \in 1..Len(tr) : tr[k].ph = ph /\ tr[k].i = i}
Has(tr, ph, i, step) == \E k \in Events(tr, ph, i) : tr[k].step = step
TaskOf(ev) == Entry(ev.ph, ev.i).tasks[ev.t]
TaskEvents == {k \in 1..Len(trace) : trace[k].step = "task"}
Healthy(tr) == \A k \in 1..Len(tr) : tr[k].env = "ok"
GitSteps == {"clone", "pull", "checkout", "submodule"}

\* C1: execute_tasks never raises to its caller: no task of any list ends
\* with an exception leaving the loop, so the run is never ended by a task.
C1_TasksNeverRaise ==
    /\ \A k \in TaskEvents : trace[k].out # "raised"
    /\ ~(status = "uncaught" /\ pc.st = "task")

\* C2: a repository entry without url or without destination is reported
\* and skipped: nothing is done for it (no directory, no git command, no
\* task) and the run is not ended by it.
C2_MissingRepoFieldSkipped ==
    \A i \in 1..Len(Repos) :
        (Repos[i].url = Absent \/ Repos[i].destination = AbsentP) =>
            /\ \A k \in Events(trace, "repo", i) :
                  trace[k].step = "skip" /\ trace[k].log = "error" /\ ~trace[k].chg
            /\ ~(status # "running" /\ pc.ph = "repo" /\ pc.i = i)

\* C3: a repository entry with url and destination, provisioned by a first
\* run that completed and provisioned again with the remote reachable and
\* unchanged: the first run cloned it, the later run pulls and does not
\* clone, is not ended by the entry, and leaves the same tree below the
\* destination as the first run left.
C3_ProvisionTwice ==
    \A i \in 1..Len(Repos) :
        (/\ Len(prev) >= 1
         /\ Truthy(Repos[i].url) /\ Repos[i].destination \notin {AbsentP, NullP}
         /\ prev[1].status = "exit0"
         /\ Healthy(trace))
        => /\ Has(prev[1].trace, "repo", i, "clone")
           /\ ~Has(trace, "repo", i, "clone")
           /\ (status = "exit0" => Has(trace, "repo", i, "pull"))
           /\ status # "exit1"
           /\ ~(status = "uncaught" /\ pc.ph = "repo")
           /\ (status = "exit0" =>
                  Subtree(fs, RepoDest(i)) = Subtree(prev[1].fs1, RepoDest(i)))

C3_Witness ==
    /\ Len(prev) = 1 /\ prev[1].status = "exit0" /\ status = "exit0"
    /\ Healthy(trace)
    /\ Repos[1].commit = "rev" /\ Repos[1].submodules = "recursive"
    /\ Has(trace, "repo", 1, "pull") /\ Has(trace, "repo", 1, "checkout")
    /\ fs[GitHead(RepoDest(1))] = "rev"

\* C4: a git command that exits non-zero is the last thing the run does:
\* the process has ended with exit status 1 at that step, and no step of
\* that entry or of a later entry follows it.
C4_GitFailureEndsRun ==
    \A k \in 1..Len(trace) :
        (trace[k].step \in GitSteps /\ trace[k].out = "fail") =>
            /\ k = Len(trace)
            /\ status = "exit1"
            /\ pc.ph = "repo" /\ pc.i = trace[k].i

C4_Witness ==
    /\ status = "exit1" /\ trace # <<>>
    /\ trace[Len(trace)].step = "checkout" /\ trace[Len(trace)].out = "fail"
    /\ trace[Len(trace)].i = 1
    /\ Len(Repos) = 2 /\ Truthy(Repos[2].url) /\ Repos[2].destination # AbsentP
    /\ Len(Arts) >= 1

\* C5: a task whose action is none of copy, delete, expand goes through the
\* unknown-action branch: a warning, and no exception raised or caught.
C5_UnknownActionWarned ==
    \A k \in TaskEvents :
        TaskOf(trace[k]).action \notin Actions =>
            trace[k].out = "warned" /\ trace[k].log = "warning"

\* C6: a task with an unrecognized action changes nothing on disk and does
\* not stop the tasks after it.
C6_UnknownActionFrame ==
    \A k \in TaskEvents :
        TaskOf(trace[k]).action \notin Actions =>
            ~trace[k].chg /\ trace[k].out # "raised"

\* C7: a copy task whose destination key is absent or empty reports an
\* error, changes no file or directory and does not stop the task list
\* (stated for tasks whose source is not null).
C7_CopyWithoutDestination ==
    \A k \in TaskEvents :
        (/\ TaskOf(trace[k]).action = "copy"
         /\ TaskOf(trace[k]).destination \in {AbsentP, <<>>}
         /\ TaskOf(trace[k]).source # NullP)
        => trace[k].log = "error" /\ ~trace[k].chg /\ trace[k].out # "raised"

\* C8: an artifact entry without url or without destination is reported and
\* skipped: no request, nothing created or written, no task, and the run
\* is not ended by it (stated for a server that answers every request).
C8_MissingArtifactFieldSkipped ==
    \A i \in 1..Len(Arts) :
        ((Arts[i].url = Absent \/ Arts[i].destination = AbsentP) /\ Healthy(trace)) =>
            /\ \A k \in Events(trace, "artifact", i) :
                  trace[k].step = "skip" /\ trace[k].log = "error" /\ ~trace[k].chg
            /\ ~(status # "running" /\ pc.ph = "artifact" /\ pc.i = i)

\* C9: the steps of a run are those of the repositories in manifest order,
\* then those of the artifacts in manifest order; for each entry the fetch
\* (clone or pull, checkout if pinned, submodule update if enabled; or the
\* request and the write), then its tasks in declared order.  The steps done
\* so far are always a prefix of that list, and all of it when the run ends
\* with status 0.
RECURSIVE Concat(_)
Concat(ss) == IF ss = <<>> THEN <<>> ELSE ss[1] \o Concat(SubSeq(ss, 2, Len(ss)))
StepsOfTasks(ph, i) ==
    [t \in 1..Len(Entry(ph, i).tasks) |-> <<ph, i, "task", t>>]
StepsOfRepo(i) ==
    IF ~Truthy(Repos[i].url) \/ Repos[i].destination = AbsentP THEN <<>>
    ELSE <<<<"repo", i, "fetch", 0>>>>
         \o (IF Truthy(Repos[i].commit) THEN <<<<"repo", i, "checkout", 0>>>> ELSE <<>>)
         \o (IF Truthy(Repos[i].submodules) THEN <<<<"repo", i, "submodule", 0>>>> ELSE <<>>)
         \o StepsOfTasks("repo", i)
StepsOfArtifact(i) ==
    IF ~Truthy(Arts[i].url) THEN <<>>
    ELSE <<<<"artifact", i, "http", 0>>, <<"artifact", i, "write", 0>>>>
         \o StepsOfTasks("artifact", i)
ExpectedSteps ==
    Concat([i \in 1..Len(Repos) |-> StepsOfRepo(i)])
        \o Concat([i \in 1..Len(Arts) |-> StepsOfArtifact(i)])
StepKinds == GitSteps \cup {"http", "write", "task"}
RECURSIVE StepsDone(_)
StepsDone(tr) ==
    IF tr = <<>> THEN <<>>
    ELSE LET e == tr[Len(tr)]
             rest == StepsDone(SubSeq(tr, 1, Len(tr) - 1))
         IN  IF e.step \in StepKinds
             THEN Append(rest, <<e.ph, e.i,
                                 IF e.step \in {"clone", "pull"} THEN "fetch" ELSE e.step,
                                 e.t>>)
             ELSE rest
C9_StrictOrder ==
    /\ IsPrefix(StepsDone(trace), ExpectedSteps)
    /\ (status = "exit0" => StepsDone(trace) = ExpectedSteps)

C9_Witness ==
    /\ status = "exit0"
    /\ Len(Repos) = 2 /\ Len(Arts) = 2
    /\ Has(trace, "repo", 1, "clone") /\ Has(trace, "repo", 2, "pull")
    /\ Has(trace, "repo", 2, "checkout") /\ Has(trace, "repo", 2, "submodule")
    /\ Has(trace, "artifact", 1, "write") /\ Has(trace, "artifact", 2, "write")
    /\ \A t \in 1..2 : \E k \in Events(trace, "artifact", 2) :
          trace[k].step = "task" /\ trace[k].t = t

\* C10: what is already on disk when the run starts is not fetched again:
\* no request and no write for an artifact whose file exists, no clone for a
\* repository whose metadata exists (stated for a reachable server).
C10_ExistingNotFetchedAgain ==
    /\ \A i \in 1..Len(Arts) :
          (/\ Healthy(trace)
           /\ Truthy(Arts[i].url) /\ Arts[i].destination \notin {AbsentP, NullP}
           /\ IsFile(fs0, BaseDir \o Arts[i].destination))
          => ~Has(trace, "artifact", i, "http") /\ ~Has(trace, "artifact", i, "write")
    /\ \A i \in 1..Len(Repos) :
          (/\ Truthy(Repos[i].url) /\ Repos[i].destination \notin {AbsentP, NullP}
           /\ HasGitMetadata(fs0, RepoDest(i)))
          => ~Has(trace, "repo", i, "clone")

\* C11: an artifact entry with url and destination is downloaded by every
\* run that reaches it, whatever the disk held when the run started: the
\* entry is never skipped, a reachable server is always asked, and right
\* after the write the destination holds the downloaded content.
ArtDest(i) == BaseDir \o Arts[i].destination
Complete(e) == Truthy(e.url) /\ e.destination \notin {AbsentP, NullP, <<>>}
DeleteStep ==
    /\ status = "running" /\ pc.st = "task"
    /\ Entry(pc.ph, pc.i).tasks[pc.t].action = "delete"
    /\ ~ResolveRaises(Entry(pc.ph, pc.i).tasks[pc.t])
C12_DeleteIdempotent ==
    [][DeleteStep =>
         LET tasks == Entry(pc.ph, pc.i).tasks
             task == tasks[pc.t]
             source == os_path_join(BaseDir,
                           IF task.source = AbsentP THEN <<>> ELSE task.source)
             present == os_path_isdir(fs, source) \/ os_path_isfile(fs, source)
             ev == trace'[Len(trace) + 1]
         IN  /\ ev.step = "task" /\ ev.out = "done"
             /\ ~present => (fs' = fs /\ ev.log = "warning")
             /\ present =>
                   /\ \A q \in DOMAIN fs' : ~IsPrefix(source.names, q)
                   /\ \A q \in DOMAIN fs :
                         ~IsPrefix(source.names, q) => (q \in DOMAIN fs' /\ fs'[q] = fs[q])
                   /\ ev.log = ""
             /\ (pc.t > 1 /\ tasks[pc.t - 1] = task) => (fs' = fs /\ ev.log = "warning")
    ]_vars

\* C13: a run without a fatal condition (the manifest is there, well formed
\* and names the project; no git command failed; no download failed) ends
\* with exit status 0, whatever recoverable errors it reported.
ManifestFine == manifest.file = "doc" /\ Truthy(manifest.project)
NoFatalCondition ==
    /\ ManifestFine
    /\ \A k \in 1..Len(trace) :
          /\ ~(trace[k].step \in GitSteps /\ trace[k].out = "fail")
          /\ ~(trace[k].step = "http" /\ trace[k].out # "ok")
C13_ExitZeroWithoutFatal ==
    (status # "running" /\ NoFatalCondition) => status = "exit0"

\* C14: a manifest that is missing, malformed, empty or without the project
\* key ends the run at once: the one thing the run did is report the
\* manifest error that corresponds (not found, parse error, no project),
\* the exit code is 1, nothing was created and no entry was touched.  A
\* document without the repositories key or without the artifacts key is
\* loaded without error and provisions no entry of that kind.
ManifestError ==
    CASE manifest.file = "missing" -> "NotFound"
      [] manifest.file = "malformed" -> "ParseError"
      [] OTHER -> "NoProject"
C14_ManifestFailsFirst ==
    /\ (~ManifestFine /\ status # "running") =>
          /\ ExitCode(status) = 1
          /\ Len(trace) = 1 /\ trace[1].step = "load"
          /\ trace[1].log = "error" /\ trace[1].out = ManifestError
          /\ fs = fs0
    /\ ~ManifestFine => \A k \in 1..Len(trace) : trace[k].ph = "start"
    /\ (ManifestFine /\ trace # <<>>) =>
          /\ trace[1].step = "load" /\ trace[1].out = "ok" /\ trace[1].log = ""
          /\ "repositories" \notin manifest.keys =>
                \A k \in 1..Len(trace) : trace[k].ph # "repo"
          /\ "artifacts" \notin manifest.keys =>
                \A k \in 1..Len(trace) : trace[k].ph # "artifact"

\* C15: a copy task whose source is a directory and whose destination is an
\* existing directory merges: afterwards every entry of the source is in
\* the destination with the source's content, every entry the destination
\* had and the source has not is as it was, and the source is unchanged.
\* Stated for a destination outside the source in which every entry can be
\* written and no entry clashes in kind with the source's entry of its name.
Below(f, p) == {q \in DOMAIN f : IsPrefix(p, q) /\ q # p}
Rel(p, q) == SubSeq(q, Len(p) + 1, Len(q))
Mergeable(f, src, dst) ==
    /\ ~IsPrefix(src, dst) /\ ~IsPrefix(dst, src)
    /\ \A q \in Below(f, src) :
          /\ f[q] # Unreadable
          /\ Exists(f, dst \o Rel(src, q)) => IsDir(f, dst \o Rel(src, q)) = IsDir(f, q)
          /\ ~Exists(f, dst \o Rel(src, q)) => Writable(f, Front(dst \o Rel(src, q)))
                                               \/ ~Exists(f, Front(dst \o Rel(src, q)))
CopyDirStep ==
    /\ status = "running" /\ pc.st = "task"
    /\ Entry(pc.ph, pc.i).tasks[pc.t].action = "copy"
    /\ ~ResolveRaises(Entry(pc.ph, pc.i).tasks[pc.t])
    /\ Entry(pc.ph, pc.i).tasks[pc.t].source # AbsentP
    /\ Entry(pc.ph, pc.i).tasks[pc.t].destination \notin {AbsentP, <<>>}
    /\ IsDir(fs, BaseDir \o Entry(pc.ph, pc.i).tasks[pc.t].source)
    /\ IsDir(fs, BaseDir \o Entry(pc.ph, pc.i).tasks[pc.t].destination)
    /\ Mergeable(fs, BaseDir \o Entry(pc.ph, pc.i).tasks[pc.t].source,
                 BaseDir \o Entry(pc.ph, pc.i).tasks[pc.t].destination)
C15_CopyMerges ==
    [][CopyDirStep =>
         LET src == BaseDir \o Entry(pc.ph, pc.i).tasks[pc.t].source
             dst == BaseDir \o Entry(pc.ph, pc.i).tasks[pc.t].destination
             copied == {dst \o Rel(src, q) : q \in Below(fs, src)}
         IN  /\ \A q \in Below(fs, src) :
                   /\ dst \o Rel(src, q) \in DOMAIN fs'
                   /\ fs'[dst \o Rel(src, q)] = fs[q]
             /\ \A q \in Below(fs, dst) \ copied : q \in DOMAIN fs' /\ fs'[q] = fs[q]
             /\ Below(fs', dst) = Below(fs, dst) \cup copied
             /\ Subtree(fs', src) = Subtree(fs, src)
             /\ trace'[Len(trace) + 1].out = "done"
    ]_vars

\* lib copied onto d, which held another src.c and the payload.
C15_Witness ==
    /\ status = "exit0" /\ Len(Arts) = 2
    /\ Arts[1].tasks = MergeScene
    /\ Arts[2].tasks = <<Task("copy", <<"lib">>, <<"d">>)>>
    /\ trace[Len(trace)].step = "task" /\ trace[Len(trace)].chg
    /\ fs[<<"out", "d", "src.c">>] = fs[<<"out", "lib", "src.c">>]
    /\ fs[<<"out", "d", ZipMember>>] = "payload-data"
    /\ fs[<<"out", "d", ".git", "HEAD">>] = fs[<<"out", "lib", ".git", "HEAD">>]

\* C16: the submodule step follows the entry's mode.  With no submodules
\* key, or with the value none, no git submodule command is issued; with
\* recursive it is issued with --recursive; with any other value it is
\* issued without; and it comes after the clone or pull and the checkout
\* of the pinned revision and before the entry's tasks.
ModeNone(m) == m \in {Absent, "none"}
C16_SubmoduleMode ==
    \A i \in 1..Len(Repos) :
        /\ ModeNone(Repos[i].submodules) => ~Has(trace, "repo", i, "submodule")
        /\ \A k \in Events(trace, "repo", i) :
              trace[k].step = "submodule" =>
                /\ trace[k].arg = (IF Repos[i].submodules = "recursive"
                                   THEN "recursive" ELSE "")
                /\ \E j \in Events(trace, "repo", i) :
                      j < k /\ trace[j].step \in {"clone", "pull"}
                /\ \A j \in Events(trace, "repo", i) :
                      /\ trace[j].step \in {"clone", "pull", "checkout"} => j < k
                      /\ trace[j].step = "task" => k < j
        /\ \A k \in Events(trace, "repo", i) :
              (trace[k].step = "task" /\ ~ModeNone(Repos[i].submodules)) =>
                 Has(trace, "repo", i, "submodule")

\* C17: a run ended by a failing git command (clone, pull, checkout or
\* submodule update) leaves on disk what its earlier steps did, and the
\* same manifest run again with git and the server working recovers: the
\* entry is cloned when it has no metadata directory and pulled when it
\* has one, no command fails, and the run ends with status 0.  Stated for
\* manifests whose artifact entries name their destination.
FailedAtGit(run) ==
    /\ run.status = "exit1" /\ run.trace # <<>>
    /\ Last(run.trace).step \in GitSteps /\ Last(run.trace).out = "fail"
KeptByFailedRun(run) ==
    \A k \in 1..Len(run.trace) :
        LET ev == run.trace[k]
        IN  ev.ph = "repo" =>
              /\ ev.step = "makedirs" => IsDir(run.fs1, RepoDest(ev.i))
              /\ (ev.step \in {"clone", "pull"} /\ ev.out = "ok") =>
                    /\ HasGitMetadata(run.fs1, RepoDest(ev.i))
                    /\ IsFile(run.fs1, Tracked(RepoDest(ev.i)))
              /\ (ev.step = "checkout" /\ ev.out = "ok") =>
                    run.fs1[GitHead(RepoDest(ev.i))] = "rev"
C17_RerunRecovers ==
    (/\ Len(prev) >= 1 /\ FailedAtGit(Last(prev))
     /\ Healthy(trace)
     /\ \A i \in 1..Len(Arts) : Arts[i].destination # AbsentP)
    => /\ KeptByFailedRun(Last(prev))
       /\ fs0 = Last(prev).fs1
       /\ status \in {"running", "exit0"}
       /\ \A k \in 1..Len(trace) : trace[k].out # "fail"
       /\ \A i \in 1..Len(Repos) :
             /\ Has(trace, "repo", i, "clone") => ~HasGitMetadata(fs0, RepoDest(i))
             /\ Has(trace, "repo", i, "pull") => HasGitMetadata(fs0, RepoDest(i))
             /\ status = "exit0" =>
                   /\ Has(trace, "repo", i, "clone") \/ Has(trace, "repo", i, "pull")
                   /\ fs[GitHead(RepoDest(i))] =
                         (IF Truthy(Repos[i].commit) THEN "rev" ELSE "ref")

\* The first run failed at the submodule step, after the checkout of the
\* pinned revision; the second failed at the pull; the third pulled and
\* completed.
C17_Witness ==
    /\ Len(prev) = 2 /\ FailedAtGit(prev[1]) /\ FailedAtGit(prev[2])
    /\ Last(prev[1].trace).step = "submodule"
    /\ Has(prev[1].trace, "repo", 1, "checkout")
    /\ Last(prev[2].trace).step = "pull"
    /\ Healthy(trace) /\ status = "exit0"
    /\ Has(trace, "repo", 1, "pull") /\ Has(trace, "repo", 1, "submodule")
    /\ Len(Arts) = 1 /\ Has(trace, "artifact", 1, "write")

\* The paths a step creates, removes, or changes the content of.
Changed(f, g) ==
    {q \in DOMAIN f \cup DOMAIN g :
        (q \in DOMAIN f) # (q \in DOMAIN g)
        \/ (q \in DOMAIN f /\ q \in DOMAIN g /\ f[q] # g[q])}
\* The destination of the entry the program is at, and the directories
\* leading to it.
OwnDest ==
    IF pc.ph = "repo" THEN RepoDest(pc.i)
    ELSE BaseDir \o (IF Arts[pc.i].destination = AbsentP THEN <<>>
                     ELSE Arts[pc.i].destination)
InOwnSubtree(q) ==
    \/ IsPrefix(OwnDest, q)
    \/ (IsPrefix(q, OwnDest) /\ q \notin DOMAIN fs /\ IsDir(fs', q))
EntryStep == status = "running" /\ pc.ph \in {"repo", "artifact"}
WholeEntries ==
    /\ \A i \in 1..Len(Repos) : Repos[i].destination \notin {AbsentP, NullP}
    /\ \A i \in 1..Len(Arts) : Arts[i].destination # NullP

\* C18: every step of provisioning an entry, its fetch and its tasks,
\* creates, changes or removes only paths inside the entry's own
\* destination (and the directories that lead to it).
C18_OwnSubtreeOnly ==
    [][(EntryStep /\ WholeEntries) =>
          \A q \in Changed(fs, fs') : InOwnSubtree(q)]_vars

\* C18 as amended: the fetch of an entry changes only paths inside the
\* entry's own destination (and the directories that lead to it); a task
\* of the entry changes only paths at or below the project root, wherever
\* the entry's destination is; no step changes a path outside the project
\* root.
C18_FetchInSubtreeTasksInRoot ==
    [][(status = "running" /\ WholeEntries) =>
          \A q \in Changed(fs, fs') :
              /\ IsPrefix(BaseDir, q)
              /\ (pc.ph \in {"repo", "artifact"} /\ pc.st # "task") => InOwnSubtree(q)
              /\ pc.ph = "start" => q = BaseDir]_vars

\* A task of the repository at out/lib has copied a file to out/d.
C18_Witness ==
    /\ trace # <<>> /\ Last(trace).step = "task" /\ Last(trace).arg = "copy"
    /\ Last(trace).ph = "repo" /\ Last(trace).chg
    /\ RepoDest(Last(trace).i) = <<"out", "lib">>
    /\ HasGitMetadata(fs, <<"out", "lib">>)
    /\ IsFile(fs, <<"out", "d", "src.c">>)

\* The step in hand is a download whose answer is not a 2xx one, or which
\* got no answer at all.
TransportFailure ==
    /\ pc.ph = "artifact" /\ pc.st = "download"
    /\ \E k \in (Len(trace) + 1)..Len(trace') :
          trace'[k].step = "http" /\ trace'[k].out # "ok"

\* Every path of f is in g with the same kind and content.
Keeps(f, g) == \A p \in DOMAIN f : p \in DOMAIN g /\ g[p] = f[p]

\* C19: a download answered with a non-2xx status or not answered at all
\* ends the run: the process leaves with a non-zero code in that very
\* step, no task of the failing artifact and no later artifact is ever
\* processed, and everything on the disk before the step is still there.
C19_TransportFailureEndsRun ==
    [][/\ status = "running"
       /\ TransportFailure =>
             /\ status' # "running" /\ ExitCode(status') = 1
             /\ ~Has(trace', "artifact", pc.i, "task")
             /\ \A j \in (pc.i + 1)..Len(Arts) : Events(trace', "artifact", j) = {}
             /\ Keeps(fs, fs')]_vars

\* The step in hand is a download that raises before any of the body is
\* read: an HTTPError from raise_for_status or a ConnectionError.
DownloadFails ==
    /\ pc.ph = "artifact" /\ pc.st = "download"
    /\ \E k \in (Len(trace) + 1)..Len(trace') :
          trace'[k].step = "http" /\ trace'[k].out \in {"status", "conn"}

\* C20: a download that fails with an error status or a connection error
\* before the body is read leaves the file already at the destination as
\* it was, and every other path too; all it may add are the missing
\* directories above the destination.
C20_FailedDownloadKeepsFile ==
    [][DownloadFails =>
          /\ Keeps(fs, fs')
          /\ IsFile(fs, ArtDest(pc.i)) => fs' = fs
          /\ \A q \in DOMAIN fs' \ DOMAIN fs :
                /\ IsDir(fs', q)
                /\ IsPrefix(q, ArtDest(pc.i)) /\ q # ArtDest(pc.i)]_vars

\* A second run whose download failed over the file the first run wrote.
C20_Witness ==
    /\ Len(prev) = 1 /\ Has(prev[1].trace, "artifact", 1, "write")
    /\ status = "uncaught" /\ Len(trace) >= 2
    /\ trace[Len(trace) - 1].step = "http" /\ trace[Len(trace) - 1].i = 1
    /\ trace[Len(trace) - 1].out \in {"status", "conn"}
    /\ IsFile(fs0, ArtDest(1)) /\ fs0[ArtDest(1)] = Body(ArtDest(1))
    /\ fs[ArtDest(1)] = Body(ArtDest(1))

=============================================================================
